---- MODULE Spec2Model ----
(***************************************************************************)
(* Field-installation tracker (tracker/views.py, models.py, forms.py).     *)
(* The database tables are the state; every view is an action.  In Spec a  *)
(* request runs to completion as one step; the race specifications split a *)
(* request into its individual database statements.                        *)
(***************************************************************************)
EXTENDS Integers, Sequences, FiniteSets, Bags, TLC

\* ------------------------------------------------------------------ bounds
MaxItems == 1   \* rows of the Pole table
MaxLog   == 4   \* rows of the ProjectLog table
MaxNamed == 3   \* rows of the Pole table when only items are created
Uploaders == 2  \* concurrent pole_detail uploads
Creators  == 2  \* concurrent create_project_item requests
Reporters == 2  \* clients sending report_issue requests concurrently
ReportsEach == 3  \* requests each of them sends within the window
MaxGeoLog == 5  \* rows of the ProjectLog table when uploads carry coordinates
MaxAdminItems == 1  \* rows of the Pole table with every view in play
MaxAdminLog   == 3  \* rows of the ProjectLog table with every view in play
MaxIssues     == 1  \* rows of the ProjectIssue table, and report_issue requests counted
MaxAuditLog   == 2  \* rows of the ProjectLog table while its insert may fail
MaxViews      == 2  \* requests counted per window, but for report_issue from the first address

\* ------------------------------------------------- configuration (admin data)
\* auth users: a superuser, a staff member, a contractor assigned to the
\* projects, a contractor assigned to none, and the anonymous user of a
\* logged-out request
User ==
  { [username |-> "admin", is_superuser |-> TRUE,  is_staff |-> TRUE,  is_authenticated |-> TRUE],
    [username |-> "staff", is_superuser |-> FALSE, is_staff |-> TRUE,  is_authenticated |-> TRUE],
    [username |-> "con",   is_superuser |-> FALSE, is_staff |-> FALSE, is_authenticated |-> TRUE],
    [username |-> "out",   is_superuser |-> FALSE, is_staff |-> FALSE, is_authenticated |-> TRUE],
    [username |-> "anon",  is_superuser |-> FALSE, is_staff |-> FALSE, is_authenticated |-> FALSE] }

ProjectType ==
  { [name |-> "TA", unit_name |-> "Pole"],
    [name |-> "TB", unit_name |-> "Tower"] }

\* TA: a required, an optional and a required stage; TB: one required stage
StageDefinition ==
  { [id |-> 1, project_type |-> "TA", name |-> "Excavation", order |-> 0, is_required |-> TRUE],
    [id |-> 2, project_type |-> "TA", name |-> "Planting",   order |-> 1, is_required |-> FALSE],
    [id |-> 3, project_type |-> "TA", name |-> "Photo",      order |-> 2, is_required |-> TRUE],
    [id |-> 4, project_type |-> "TB", name |-> "Survey",     order |-> 1, is_required |-> TRUE] }

Project ==
  { [id |-> 1, name |-> "City", project_type |-> "TA", contractors |-> {"con"},
     client |-> "client-uuid-1", client_uuid |-> "uuid-1"],
    [id |-> 2, name |-> "Town", project_type |-> "TB", contractors |-> {"con"},
     client |-> "client-uuid-1", client_uuid |-> "uuid-2"] }

\* project 1 has the grouping field "Village"; project 2 has no custom field
ItemFieldDefinition ==
  { [id |-> 1, project |-> 1, label |-> "Village", field_type |-> "TEXT", is_grouping_key |-> TRUE] }

\* ------------------------------------------------------------------ inputs
Usernames   == { u.username : u \in User }
Requesters  == { "con", "out", "anon" }          \* who sends the requests
ProjectIds  == { p.id : p \in Project }
Answers     == { "", "Bari", "Kota" }            \* a text field's POST value
FewAnswers  == { "", "Bari" }
StageIdRaws == { "", "x", "0", "1", "2", "3", "4", "9" } \* POST stage_id
GpsInputs   == { "ok", "oversized" }           \* POST gps_lat / gps_long

\* ------------------------------------------------------------------- state
VARIABLES
  poles,          \* Pole table: sequence indexed by id of [project, identifier, is_completed]
  fieldValues,    \* ItemFieldValue table: set of [pole, field_def, value]
  evidence,       \* Evidence table: bag of [pole, stage] rows
  log,            \* ProjectLog table, in insertion order
  auditDown,      \* TRUE while ProjectLog.objects.create raises
  msg,            \* the response of the last request
  procs,          \* the requests in flight (race specifications only)
  status,         \* Project.status, by project id
  issues,         \* ProjectIssue table: sequence indexed by id of [pole, status, reported_by]
  cache           \* the rate limiter's cache: the count stored under a key, 0 for no entry

vars == <<poles, fieldValues, evidence, log, auditDown, msg, procs, status, issues, cache>>

\* ----------------------------------------------------------------- lookups
UserOf(name)    == CHOOSE u \in User : u.username = name
ProjectOf(id)   == CHOOSE p \in Project : p.id = id
TypeOf(name)    == CHOOSE t \in ProjectType : t.name = name
StageOf(id)     == CHOOSE s \in StageDefinition : s.id = id
StageIds        == { s.id : s \in StageDefinition }
PoleIds         == 1..Len(poles)
FieldDefsOf(pr) == { f \in ItemFieldDefinition : f.project = pr }

NoMsg == [op |-> "none", kind |-> "none", missing |-> <<>>, locks |-> <<>>, alert |-> <<>>]
Msg(op, kind) == [op |-> op, kind |-> kind, missing |-> <<>>, locks |-> <<>>, alert |-> <<>>]

\* ------------------------------------------------- 0. security and logging
\* every signed-in user let through
check_project_access_any_user(user, project) == user.is_authenticated

check_project_access(user, project) ==
  \/ user.is_superuser
  \/ user.is_staff
  \/ user.username \in project.contractors

\* the logger.warning line and the PermissionDenied (403) of a refused check
PermissionDenied(op, user, project) ==
  [op |-> op, kind |-> "permission_denied", missing |-> <<>>, locks |-> <<>>,
   alert |-> <<user.username, project.id>>]

LogEntry(project, user, action, target, details) ==
  [ project |-> project,
    user    |-> IF user.is_authenticated THEN user.username ELSE "None",
    action  |-> action,
    target  |-> target,
    details |-> details ]

\* the newest entry written over the last one
log_action_overwriting(table, down, project, user, action, target, details) ==
  IF down THEN table
  ELSE IF table = <<>> THEN <<LogEntry(project, user, action, target, details)>>
  ELSE [table EXCEPT ![Len(table)] = LogEntry(project, user, action, target, details)]

\* the table after log_action: a failure of the insert is swallowed
log_action(table, down, project, user, action, target, details) ==
  IF down THEN table
  ELSE Append(table, LogEntry(project, user, action, target, details))

\* the tables a request reads, and what it leaves: the tables and the response
Db == [poles |-> poles, fieldValues |-> fieldValues, evidence |-> evidence,
       log |-> log, auditDown |-> auditDown,
       status |-> status, issues |-> issues, cache |-> cache]
Respond(db, m) ==
  [poles |-> db.poles, fieldValues |-> db.fieldValues, evidence |-> db.evidence,
   log |-> db.log, msg |-> m]
Commit(r) ==
  /\ poles' = r.poles
  /\ fieldValues' = r.fieldValues
  /\ evidence' = r.evidence
  /\ log' = r.log
  /\ msg' = r.msg
  /\ UNCHANGED <<auditDown, procs, status, issues, cache>>

\* ----------------------------------------------------- 2. item creation
\* f"TEMP-{n}", f"{name}_{value} #{count}", f"{unit_name} #{n}", f"{base}-{c}":
\* an identifier is the sequence of the pieces the f-string joins
TempIdentifier(n)                   == <<"TEMP-", ToString(n)>>
GroupIdentifierFromZero(name, value, count) == <<name, "_", value, " #", ToString(count - 1)>>
GroupIdentifier(name, value, count) == <<name, "_", value, " #", ToString(count)>>
UnitIdentifier(unit_name, n)        == <<unit_name, " #", ToString(n)>>
Suffixed(base, c)                   == base \o <<"-", ToString(c)>>

PolesOf(table, pr) == { i \in 1..Len(table) : table[i].project = pr }

\* DynamicItemForm: one required field per field definition
ItemForms(pr, values) == [ { f.id : f \in FieldDefsOf(pr) } -> values ]
DynamicItemForm_is_valid(pr, answers) ==
  \A f \in FieldDefsOf(pr) :
    f.field_type \in {"TEXT", "DROPDOWN"} => answers[f.id] # ""

\* the rows the loop over project.field_definitions inserts for the new pole
NewFieldValues(pr, pole, answers) ==
  { [pole |-> pole, field_def |-> f.id, value |-> answers[f.id]] : f \in FieldDefsOf(pr) }

\* "Identifier Logic": the candidate before the uniqueness pass
\* (<<>> is the empty new_identifier)
GroupCandidate(table, values, project, pole) ==
  LET groupDefs == { f \in FieldDefsOf(project.id) : f.is_grouping_key } IN
  IF groupDefs = {} THEN <<>>
  ELSE
    LET group_def   == CHOOSE f \in groupDefs : \A g \in groupDefs : f.id <= g.id
        val_objs    == { v \in values : v.pole = pole /\ v.field_def = group_def.id }
        group_value == IF val_objs = {} THEN "" ELSE (CHOOSE v \in val_objs : TRUE).value
        count       == Cardinality({ v \in values : /\ v.field_def = group_def.id
                                                    /\ v.value = group_value
                                                    /\ table[v.pole].project = project.id })
    IN IF group_value # "" THEN GroupIdentifier(project.name, group_value, count)
       ELSE <<>>

Candidate(table, values, project, pole) ==
  LET grouped == GroupCandidate(table, values, project, pole) IN
  IF grouped # <<>> THEN grouped
  ELSE UnitIdentifier(TypeOf(project.project_type).unit_name,
                      Cardinality(PolesOf(table, project.id)))

IdentifierTaken(table, pr, pole, identifier) ==
  \E i \in PolesOf(table, pr) \ {pole} : table[i].identifier = identifier

\* the suffix -1 appended without looking again
UniqueIdentifierOnce(table, pr, pole, base, new_identifier, c) ==
  IF IdentifierTaken(table, pr, pole, new_identifier) THEN Suffixed(base, c)
  ELSE new_identifier

\* the while loop appending -c until no other pole of the project has the name
RECURSIVE UniqueIdentifier(_, _, _, _, _, _)
UniqueIdentifier(table, pr, pole, base, new_identifier, c) ==
  IF IdentifierTaken(table, pr, pole, new_identifier)
  THEN UniqueIdentifier(table, pr, pole, base, Suffixed(base, c), c + 1)
  ELSE new_identifier

\* " | ".join(f"{label}: {answer}") behind "Custom Fields: "
CreateDetails(pr, answers) ==
  <<"Custom Fields: ">> \o
  (IF FieldDefsOf(pr) = {} THEN <<>>
   ELSE LET f == CHOOSE g \in FieldDefsOf(pr) : TRUE IN <<f.label, ": ", answers[f.id]>>)

create_project_item(db, username, pr, method, answers) ==
  LET user    == UserOf(username)
      project == ProjectOf(pr)
      op      == "create_project_item"
  IN
  IF ~user.is_authenticated THEN Respond(db, Msg(op, "login_redirect"))
  ELSE IF ~check_project_access(user, project) THEN Respond(db, PermissionDenied(op, user, project))
  ELSE IF method # "POST" \/ ~DynamicItemForm_is_valid(pr, answers)
  THEN Respond(db, Msg(op, "form"))
  ELSE
    LET temp_id == TempIdentifier(Cardinality(PolesOf(db.poles, pr)) + 1)
        pole    == Len(db.poles) + 1
        created == Append(db.poles, [project |-> pr, identifier |-> temp_id,
                                     is_completed |-> FALSE])
        values  == db.fieldValues \cup NewFieldValues(pr, pole, answers)
        base    == Candidate(created, values, project, pole)
        new_identifier == UniqueIdentifier(created, pr, pole, base, base, 1)
    IN [ poles       |-> [created EXCEPT ![pole].identifier = new_identifier],
         fieldValues |-> values,
         evidence    |-> db.evidence,
         log         |-> log_action(db.log, db.auditDown, pr, user, "Created Item",
                                    new_identifier, CreateDetails(pr, answers)),
         msg         |-> Msg(op, "created") ]

\* ------------------------------------------------ 3. evidence handling
\* queryset.order_by('order') (StageDefinition.Meta.ordering): ascending order
RECURSIVE OrderByOrder(_)
OrderByOrder(S) ==
  IF S = {} THEN <<>>
  ELSE LET first == CHOOSE s \in S : \A t \in S :
                      s.order < t.order \/ (s.order = t.order /\ s.id <= t.id)
       IN <<first>> \o OrderByOrder(S \ {first})

StagesOfType(pt) == { s \in StageDefinition : s.project_type = pt }

\* Evidence.objects.filter(pole=pole, stage=stage).exists() / .delete() and
\* evidence.save(), on a bag of rows
EvidenceRow(pole, stage) == [pole |-> pole, stage |-> stage]
EvidenceExists(table, pole, stage) == BagIn(EvidenceRow(pole, stage), table)
\* the deletion forgotten
EvidenceDeletedNothing(table, pole, stage) == table
EvidenceDeleted(table, pole, stage) ==
  [ r \in BagToSet(table) \ {EvidenceRow(pole, stage)} |-> table[r] ]
EvidenceSaved(table, pole, stage) == table (+) SetToBag({EvidenceRow(pole, stage)})
\* evidence.delete() of one row
EvidenceRowDeleted(table, row) == table (-) SetToBag({row})

\* evidence_map = {e.stage.id: e for e in existing_evidence}: its keys
EvidenceMap(table, pole) == { e.stage : e \in { x \in BagToSet(table) : x.pole = pole } }

\* the lock loop never unlocking again after a stage without evidence
RECURSIVE LockLoopCumulative(_, _, _)
LockLoopCumulative(stages, evidence_map, previous_stage_done) ==
  IF stages = <<>> THEN <<>>
  ELSE <<~previous_stage_done>> \o
       LockLoopCumulative(Tail(stages), evidence_map,
                          previous_stage_done /\ Head(stages).id \in evidence_map)

\* "1. CALCULATE LOCK STATUS": the is_locked flags, in the order of stages
RECURSIVE LockLoop(_, _, _)
LockLoop(stages, evidence_map, previous_stage_done) ==
  IF stages = <<>> THEN <<>>
  ELSE <<~previous_stage_done>> \o
       LockLoop(Tail(stages), evidence_map, Head(stages).id \in evidence_map)

StageLocks(table, pole, pt) ==
  LockLoop(OrderByOrder(StagesOfType(pt)), EvidenceMap(table, pole), TRUE)

\* int(stage_id_raw) if stage_id_raw else None; "x" raises ValueError
DigitValue == [ r \in {"0", "1", "2", "3", "4", "9"} |->
                 CASE r = "0" -> 0 [] r = "1" -> 1 [] r = "2" -> 2
                   [] r = "3" -> 3 [] r = "4" -> 4 [] r = "9" -> 9 ]
ParseStageId(raw) ==
  IF raw = "" THEN [error |-> FALSE, none |-> TRUE, value |-> 0]
  ELSE IF raw \in DOMAIN DigitValue
       THEN [error |-> FALSE, none |-> FALSE, value |-> DigitValue[raw]]
       ELSE [error |-> TRUE, none |-> FALSE, value |-> 0]

\* "2. SECURITY CHECK: PREVENT SKIPPING": the names of the stages of the
\* pole's project type below the target's order that have no evidence
RECURSIVE MissingLoop(_, _, _)
MissingLoop(prev_stages, table, pole) ==
  IF prev_stages = <<>> THEN <<>>
  ELSE (IF ~EvidenceExists(table, pole, Head(prev_stages).id)
        THEN <<Head(prev_stages).name>> ELSE <<>>)
       \o MissingLoop(Tail(prev_stages), table, pole)

\* the gate asking only for the required stages below the target
PrevStagesRequiredOnly(pt, target_stage) ==
  OrderByOrder({ s \in StagesOfType(pt) : s.order < target_stage.order /\ s.is_required })

PrevStages(pt, target_stage) ==
  OrderByOrder({ s \in StagesOfType(pt) : s.order < target_stage.order })

MissingStages(table, pole, pt, target_stage) ==
  MissingLoop(PrevStages(pt, target_stage), table, pole)

\* EvidenceForm: the image is required, the coordinates are DecimalFields
EvidenceForm_is_valid(image, gps) == image /\ gps # "oversized"

\* required_count, uploaded_count and the flag stored on the pole
RequiredCount(pt) ==
  Cardinality({ s \in StagesOfType(pt) : s.is_required })
UploadedCount(table, pole) ==
  Cardinality({ e.stage : e \in { x \in BagToSet(table) :
                                      x.pole = pole /\ StageOf(x.stage).is_required } })
IsCompleted(table, pole, pt) == UploadedCount(table, pole) >= RequiredCount(pt)

ViewMsg(op, kind, locks) ==
  [op |-> op, kind |-> kind, missing |-> <<>>, locks |-> locks, alert |-> <<>>]

\* the rejection writing an audit entry for the refused upload
SequenceLockedLogged(db, project, user, pole, missing_stages) ==
  [ poles |-> db.poles, fieldValues |-> db.fieldValues, evidence |-> db.evidence,
    log |-> log_action(db.log, db.auditDown, project.id, user, "Upload Rejected",
                       db.poles[pole].identifier, missing_stages),
    msg |-> [op |-> "pole_detail", kind |-> "sequence_locked", locks |-> <<>>,
             missing |-> missing_stages, alert |-> <<>>] ]

\* the "Sequence Locked" redirect: a message, nothing written
SequenceLocked(db, project, user, pole, missing_stages) ==
  Respond(db, [op |-> "pole_detail", kind |-> "sequence_locked", locks |-> <<>>,
               missing |-> missing_stages, alert |-> <<>>])

pole_detail(db, username, pole, method, stage_id_raw, image, gps) ==
  LET user      == UserOf(username)
      project   == ProjectOf(db.poles[pole].project)
      pt        == project.project_type
      op        == "pole_detail"
      locks     == StageLocks(db.evidence, pole, pt)
      parsed    == ParseStageId(stage_id_raw)
      stage_id  == parsed.value
      hasStage  == ~parsed.none /\ stage_id # 0
      missing_stages == MissingStages(db.evidence, pole, pt, StageOf(stage_id))
  IN
  IF ~user.is_authenticated THEN Respond(db, Msg(op, "login_redirect"))
  ELSE IF ~check_project_access(user, project) THEN Respond(db, PermissionDenied(op, user, project))
  ELSE IF method # "POST" THEN Respond(db, ViewMsg(op, "view", locks))
  ELSE IF parsed.error THEN Respond(db, Msg(op, "invalid_stage_id"))
  ELSE IF hasStage /\ stage_id \notin StageIds THEN Respond(db, Msg(op, "not_found"))
  ELSE IF hasStage /\ missing_stages # <<>>
  THEN SequenceLocked(db, project, user, pole, missing_stages)
  ELSE
    LET overwrite == hasStage /\ EvidenceExists(db.evidence, pole, stage_id)
        \* "(Existing Deletion Logic)"
        afterDelete == IF overwrite THEN EvidenceDeleted(db.evidence, pole, stage_id)
                       ELSE db.evidence
        logDelete   == IF overwrite
                       THEN log_action(db.log, db.auditDown, project.id, user,
                                       "Re-Uploaded Evidence", db.poles[pole].identifier,
                                       <<"Overwrote stage: ", StageOf(stage_id).name>>)
                       ELSE db.log
    IN
    IF ~EvidenceForm_is_valid(image, gps) THEN
      [ poles |-> db.poles, fieldValues |-> db.fieldValues, evidence |-> afterDelete,
        log |-> logDelete, msg |-> ViewMsg(op, "upload_failed", locks) ]
    ELSE IF ~hasStage THEN
      \* evidence.save() without a stage raises; the except branch renders
      Respond(db, ViewMsg(op, "error", locks))
    ELSE
      LET saved == EvidenceSaved(afterDelete, pole, stage_id) IN
      [ poles |-> [db.poles EXCEPT ![pole].is_completed = IsCompleted(saved, pole, pt)],
        fieldValues |-> db.fieldValues,
        evidence |-> saved,
        log |-> log_action(logDelete, db.auditDown, project.id, user, "Uploaded Evidence",
                           db.poles[pole].identifier,
                           <<"Stage: ", StageOf(stage_id).name>>),
        msg |-> Msg(op, "upload_ok") ]

delete_evidence(db, username, row) ==
  LET user    == UserOf(username)
      pole    == row.pole
      project == ProjectOf(db.poles[pole].project)
      op      == "delete_evidence"
      left    == EvidenceRowDeleted(db.evidence, row)
  IN
  IF ~user.is_authenticated THEN Respond(db, Msg(op, "login_redirect"))
  ELSE IF ~check_project_access(user, project) THEN Respond(db, PermissionDenied(op, user, project))
  ELSE
    [ poles |-> [db.poles EXCEPT ![pole].is_completed =
                   IsCompleted(left, pole, project.project_type)],
      fieldValues |-> db.fieldValues,
      evidence |-> left,
      log |-> log_action(db.log, db.auditDown, project.id, user, "Deleted Evidence",
                         db.poles[pole].identifier,
                         <<"Deleted photo for: ", StageOf(row.stage).name>>),
      msg |-> Msg(op, "deleted") ]

\* -------------------------- 3b. coordinates and watermark of an upload
\* POST gps_lat / gps_long ("" when the field is empty or absent); the
\* outcome of get_gps_from_image and of watermark_image for the uploaded file
ClientCoords      == { <<"", "">>, <<"12.5", "77.2">>, <<"12.5", "">>, <<"", "77.2">> }
ExifOutcomes      == { "raises", "none", "found" }
WatermarkOutcomes == { "ok", "returns_original", "raises" }
ExifPair          == <<"28.613900", "77.209000">>   \* f"{lat:.6f}", f"{lon:.6f}"

\* "EXIF Fallback": lat, lon after the block; its try swallows every exception
ExifFallback(lat, lon, raw_file, exif) ==
  IF (lat = "" \/ lon = "") /\ raw_file /\ exif = "found"
  THEN [lat |-> ExifPair[1], lon |-> ExifPair[2]]
  ELSE [lat |-> lat, lon |-> lon]

\* the instance built by form.save(commit=False) carries the form's gps_lat
\* and gps_long; "if lat and lon" then overwrites both
AssignedCoords(form_lat, form_lon, lat, lon) ==
  IF lat # "" /\ lon # "" THEN <<lat, lon>> ELSE <<form_lat, form_lon>>

\* "Watermarking": the image of the instance and the arguments of the call;
\* watermark_image returns the file it was given when it fails inside, and
\* the view's try swallows whatever it raises
Watermarking(raw_file, lat, lon, wm) ==
  IF ~raw_file THEN [image |-> "none", called |-> FALSE, lat |-> "", lon |-> ""]
  ELSE [image |-> IF wm = "ok" THEN "watermarked" ELSE "original",
        called |-> TRUE, lat |-> lat, lon |-> lon]

NoMedia ==
  [saved |-> FALSE, gps_lat |-> "", gps_long |-> "", image |-> "none",
   wm_called |-> FALSE, wm_lat |-> "", wm_lon |-> "", log_lat |-> "", log_lon |-> ""]

\* pole_detail for a POST, with the columns of the saved record, the
\* arguments of the watermark call and the coordinates of the audit entry
pole_detail_media(db, username, pole, stage_id_raw, image, coords, exif, wm) ==
  LET r      == pole_detail(db, username, pole, "POST", stage_id_raw, image, "ok")
      e      == ExifFallback(coords[1], coords[2], image, exif)
      gps    == AssignedCoords(coords[1], coords[2], e.lat, e.lon)
      w      == Watermarking(image, e.lat, e.lon, wm)
  IN
  IF r.msg.kind # "upload_ok"
  THEN [poles |-> r.poles, fieldValues |-> r.fieldValues, evidence |-> r.evidence,
        log |-> r.log, msg |-> r.msg, media |-> NoMedia]
  ELSE [poles |-> r.poles, fieldValues |-> r.fieldValues, evidence |-> r.evidence,
        log |-> r.log, msg |-> r.msg,
        media |-> [saved |-> TRUE, gps_lat |-> gps[1], gps_long |-> gps[2],
                   image |-> w.image, wm_called |-> w.called,
                   wm_lat |-> w.lat, wm_lon |-> w.lon,
                   log_lat |-> e.lat, log_lon |-> e.lon]]

\* ------------------------------------- 2b. project management and logs
\* a response of a view that may write any table
All(db, m) ==
  [poles |-> db.poles, fieldValues |-> db.fieldValues, evidence |-> db.evidence,
   log |-> db.log, status |-> db.status, issues |-> db.issues, cache |-> db.cache,
   msg |-> m]
CommitAll(r) ==
  /\ poles' = r.poles
  /\ fieldValues' = r.fieldValues
  /\ evidence' = r.evidence
  /\ log' = r.log
  /\ status' = r.status
  /\ issues' = r.issues
  /\ cache' = r.cache
  /\ msg' = r.msg
  /\ UNCHANGED <<auditDown, procs>>

\* get_object_or_404(Project, id=project_id)
ProjectExists(pr) == pr \in ProjectIds

\* the three read views share their shape: login, 404, access check, render
ReadView(db, op, username, pr, kind) ==
  LET user == UserOf(username) IN
  IF ~user.is_authenticated THEN All(db, Msg(op, "login_redirect"))
  ELSE IF ~ProjectExists(pr) THEN All(db, Msg(op, "not_found"))
  ELSE IF ~check_project_access(user, ProjectOf(pr))
       THEN All(db, PermissionDenied(op, user, ProjectOf(pr)))
  ELSE All(db, Msg(op, kind))

\* sorted(..., key=lambda p: (not p.has_open_issue, p.id)): Pole has no
\* attribute has_open_issue, so the key raises as soon as there is a pole
project_detail(db, username, pr) ==
  ReadView(db, "project_detail", username, pr,
           IF PolesOf(db.poles, pr) = {} THEN "view" ELSE "server_error")
project_logs(db, username, pr)   == ReadView(db, "project_logs", username, pr, "view")
project_issues(db, username, pr) == ReadView(db, "project_issues", username, pr, "view")

\* the CSV: writer.writerow(...) per row, a row being the list of its cells;
\* None is written as the empty cell
CsvHeader == <<"Timestamp", "User", "Action", "Target", "Details", "Latitude", "Longitude">>
ExportUserAlways(entry) == entry.user
ExportUser(entry) == IF entry.user # "None" THEN entry.user ELSE "System/Client"
CsvRow(entry) ==
  <<"timestamp", ExportUser(entry), entry.action, entry.target, entry.details, "", "">>
RECURSIVE LogsOf(_, _)
LogsOf(table, pr) ==
  IF table = <<>> THEN <<>>
  ELSE (IF Head(table).project = pr THEN <<Head(table)>> ELSE <<>>) \o LogsOf(Tail(table), pr)
CsvRows(table, pr) ==
  LET logs == LogsOf(table, pr) IN
  <<CsvHeader>> \o [ i \in DOMAIN logs |-> CsvRow(logs[i]) ]

export_project_logs(db, username, pr) ==
  LET r == ReadView(db, "export_project_logs", username, pr, "csv") IN
  IF r.msg.kind # "csv" THEN r
  ELSE All(db, [op |-> "export_project_logs", kind |-> "csv", missing |-> <<>>,
                locks |-> <<>>, alert |-> <<>>, rows |-> CsvRows(db.log, pr)])

\* the completion undone when its audit entry cannot be written
mark_project_completed_rollback(db, username, pr) ==
  LET user == UserOf(username)
      op   == "mark_project_completed"
  IN
  IF ~user.is_authenticated THEN All(db, Msg(op, "login_redirect"))
  ELSE IF ~user.is_superuser THEN All(db, Msg(op, "permission_denied"))
  ELSE IF ~ProjectExists(pr) THEN All(db, Msg(op, "not_found"))
  ELSE IF db.auditDown THEN All(db, Msg(op, "server_error"))
  ELSE [ All(db, Msg(op, "completed")) EXCEPT
           !.status = [db.status EXCEPT ![pr] = "COMPLETED"],
           !.log = log_action(db.log, db.auditDown, pr, user, "Project Completed",
                              <<"Project Settings">>, <<"Marked status as COMPLETED">>) ]

mark_project_completed(db, username, pr) ==
  LET user == UserOf(username)
      op   == "mark_project_completed"
  IN
  IF ~user.is_authenticated THEN All(db, Msg(op, "login_redirect"))
  ELSE IF ~user.is_superuser THEN All(db, Msg(op, "permission_denied"))
  ELSE IF ~ProjectExists(pr) THEN All(db, Msg(op, "not_found"))
  ELSE [ All(db, Msg(op, "completed")) EXCEPT
           !.status = [db.status EXCEPT ![pr] = "COMPLETED"],
           !.log = log_action(db.log, db.auditDown, pr, user, "Project Completed",
                              <<"Project Settings">>, <<"Marked status as COMPLETED">>) ]

\* ------------------------------------------------ 4. client / issue views
\* program constants: the limits of the three decorated views
ClientDashboardLimit == 10
ClientCityViewLimit  == 60
ReportIssueLimit     == 5

\* rate_limit's wrapper up to the call of the view: the count read, the
\* refusal, and the cache after cache.set(key, 1, period) or cache.incr(key)
RateKey(name, ip) == <<name, ip>>
RateAdmitted(table, name, ip, limit) == table[RateKey(name, ip)] < limit
RateCounted(table, name, ip) ==
  LET count == table[RateKey(name, ip)] IN
  [table EXCEPT ![RateKey(name, ip)] = IF count = 0 THEN 1 ELSE count + 1]
TooManyRequests(db, op) == All(db, Msg(op, "too_many_requests"))

\* an anonymous read by UUID: get_object_or_404 on the uuid, then render
ClientUuids  == { p.client : p \in Project }
ProjectUuids == { p.client_uuid : p \in Project }
client_dashboard(db, ip, client_uuid) ==
  LET op == "client_dashboard" IN
  IF ~RateAdmitted(db.cache, op, ip, ClientDashboardLimit) THEN TooManyRequests(db, op)
  ELSE LET counted == [db EXCEPT !.cache = RateCounted(db.cache, op, ip)] IN
       IF client_uuid \notin ClientUuids THEN All(counted, Msg(op, "not_found"))
       ELSE All(counted, Msg(op, "view"))

client_city_view(db, ip, client_uuid) ==
  LET op == "client_city_view" IN
  IF ~RateAdmitted(db.cache, op, ip, ClientCityViewLimit) THEN TooManyRequests(db, op)
  ELSE LET counted == [db EXCEPT !.cache = RateCounted(db.cache, op, ip)] IN
       IF client_uuid \notin ProjectUuids THEN All(counted, Msg(op, "not_found"))
       ELSE All(counted, Msg(op, "view"))

\* IssueForm: the message is a required CharField
IssueForm_is_valid(message) == message # ""
NewIssue(pole) == [pole |-> pole, status |-> "OPEN", reported_by |-> "Client"]

\* the view without its gate on the project's status
ReportIssueViewUngated(db, pole, method, message) ==
  LET op      == "report_issue"
      project == ProjectOf(db.poles[pole].project)
  IN
  IF method = "POST" /\ IssueForm_is_valid(message)
  THEN [ All(db, Msg(op, "reported")) EXCEPT
           !.issues = Append(db.issues, NewIssue(pole)),
           !.log = log_action(db.log, db.auditDown, project.id, UserOf("anon"),
                              "Client Flagged Issue", db.poles[pole].identifier,
                              <<"Issue: ", message>>) ]
  ELSE All(db, Msg(op, "redirect"))

\* the view rate_limit wraps (log_action is called with user None)
ReportIssueView(db, pole, method, message) ==
  LET op      == "report_issue"
      project == ProjectOf(db.poles[pole].project)
  IN
  IF db.status[project.id] # "ACTIVE" THEN All(db, Msg(op, "project_closed"))
  ELSE IF method = "POST" /\ IssueForm_is_valid(message)
  THEN [ All(db, Msg(op, "reported")) EXCEPT
           !.issues = Append(db.issues, NewIssue(pole)),
           !.log = log_action(db.log, db.auditDown, project.id, UserOf("anon"),
                              "Client Flagged Issue", db.poles[pole].identifier,
                              <<"Issue: ", message>>) ]
  ELSE All(db, Msg(op, "redirect"))

\* the view run although the budget is spent
ReportIssueUnlimited(db, ip, pole, method, message) ==
  LET op      == "report_issue"
      counted == IF RateAdmitted(db.cache, op, ip, ReportIssueLimit)
                 THEN [db EXCEPT !.cache = RateCounted(db.cache, op, ip)]
                 ELSE db
  IN
  IF pole \notin 1..Len(db.poles) THEN All(counted, Msg(op, "not_found"))
  ELSE ReportIssueView(counted, pole, method, message)

report_issue(db, ip, pole, method, message) ==
  LET op == "report_issue" IN
  IF ~RateAdmitted(db.cache, op, ip, ReportIssueLimit) THEN TooManyRequests(db, op)
  ELSE LET counted == [db EXCEPT !.cache = RateCounted(db.cache, op, ip)] IN
       IF pole \notin 1..Len(db.poles) THEN All(counted, Msg(op, "not_found"))
       ELSE ReportIssueView(counted, pole, method, message)

resolve_issue(db, username, issue) ==
  LET user == UserOf(username)
      op   == "resolve_issue"
  IN
  IF ~user.is_authenticated THEN All(db, Msg(op, "login_redirect"))
  ELSE IF issue \notin 1..Len(db.issues) THEN All(db, Msg(op, "not_found"))
  ELSE
    LET pole    == db.issues[issue].pole
        project == ProjectOf(db.poles[pole].project)
    IN
    IF ~check_project_access(user, project) THEN All(db, PermissionDenied(op, user, project))
    ELSE [ All(db, Msg(op, "resolved")) EXCEPT
             !.issues = [db.issues EXCEPT ![issue].status = "RESOLVED"],
             !.log = log_action(db.log, db.auditDown, project.id, user, "Resolved Issue",
                                db.poles[pole].identifier,
                                <<"Resolved report from ", db.issues[issue].reported_by>>) ]

\* ------------------------------------------------------- the admin site
\* the admin site admits staff; a superuser holds every model permission
AdminSiteChange(user) == user.is_authenticated /\ user.is_staff /\ user.is_superuser

\* ProjectIssueAdmin.mark_resolved: queryset.update(status='RESOLVED')
mark_resolved(db, username, queryset) ==
  LET op == "admin_mark_resolved" IN
  IF ~AdminSiteChange(UserOf(username)) THEN All(db, Msg(op, "login_redirect"))
  ELSE [ All(db, Msg(op, "updated")) EXCEPT
           !.issues = [ i \in DOMAIN db.issues |->
                          IF i \in queryset THEN [db.issues[i] EXCEPT !.status = "RESOLVED"]
                          ELSE db.issues[i] ] ]

\* ProjectAdmin's change form: 'status' is one of its fields
\* admin.site.register(Pole): the change form of an item saves its identifier
pole_admin_change(db, username, pole, identifier) ==
  LET op == "admin_pole_change" IN
  IF ~AdminSiteChange(UserOf(username)) THEN All(db, Msg(op, "login_redirect"))
  ELSE IF pole \notin 1..Len(db.poles) THEN All(db, Msg(op, "not_found"))
  ELSE [ All(db, Msg(op, "updated")) EXCEPT
           !.poles = [db.poles EXCEPT ![pole].identifier = identifier] ]

project_admin_change(db, username, pr, new_status) ==
  LET op == "admin_project_change" IN
  IF ~AdminSiteChange(UserOf(username)) THEN All(db, Msg(op, "login_redirect"))
  ELSE [ All(db, Msg(op, "updated")) EXCEPT
           !.status = [db.status EXCEPT ![pr] = new_status] ]

\* ------------------------------------------------ requests run one at a time
Idle == [ i \in {} |-> 0 ]

\* Project.status defaults to ACTIVE; no issue; an empty cache
NoStatusChange == [ p \in ProjectIds |-> "ACTIVE" ]
RateLimited    == { "client_dashboard", "client_city_view", "report_issue" }
Addresses      == { "10.0.0.1", "10.0.0.2" }     \* REMOTE_ADDR
EmptyCache     == [ k \in RateLimited \X Addresses |-> 0 ]

Init ==
  /\ poles = <<>>
  /\ fieldValues = {}
  /\ evidence = EmptyBag
  /\ log = <<>>
  /\ auditDown = FALSE
  /\ msg = NoMsg
  /\ procs = Idle
  /\ status = NoStatusChange
  /\ issues = <<>>
  /\ cache = EmptyCache

\* the requests sent: every input of a permitted requester, one request of
\* each kind by the others
ItemRequests(pr, values) ==
  ({"con"} \X {"GET", "POST"} \X ItemForms(pr, values))
    \cup { <<u, "POST", CHOOSE a \in ItemForms(pr, values) : DynamicItemForm_is_valid(pr, a)>> :
           u \in Requesters \ {"con"} }

EvidenceForms == { <<TRUE, "ok">>, <<FALSE, "ok">>, <<TRUE, "oversized">> }
UploadRequests ==
  ({"con"} \X StageIdRaws \X EvidenceForms)
    \cup ((Requesters \ {"con"}) \X {"1"} \X {<<TRUE, "ok">>})

WithinBounds == Len(poles') <= MaxItems /\ Len(log') <= MaxLog

CreateItem ==
  \E pr \in ProjectIds : \E r \in ItemRequests(pr, FewAnswers) :
    Commit(create_project_item(Db, r[1], pr, r[2], r[3])) /\ WithinBounds

PoleDetailView ==
  \E u \in Requesters, p \in PoleIds :
    Commit(pole_detail(Db, u, p, "GET", "", FALSE, "ok")) /\ WithinBounds

PoleDetailUpload ==
  \E p \in PoleIds, r \in UploadRequests :
    Commit(pole_detail(Db, r[1], p, "POST", r[2], r[3][1], r[3][2])) /\ WithinBounds

DeleteEvidence ==
  \E u \in Requesters, e \in BagToSet(evidence) :
    Commit(delete_evidence(Db, u, e)) /\ WithinBounds

Next == CreateItem \/ PoleDetailView \/ PoleDetailUpload \/ DeleteEvidence

Spec == Init /\ [][Next]_vars

\* ------------------------------------------------ items only, one at a time
CreateItemOnly ==
  \E pr \in ProjectIds : \E r \in ItemRequests(pr, Answers) :
    Commit(create_project_item(Db, r[1], pr, r[2], r[3])) /\ Len(poles') <= MaxNamed

SpecItems == Init /\ [][CreateItemOnly]_vars

\* --------------------------- every view, one request at a time (SpecAdmin)
\* the requests sent: those of the users a view admits, and one refused
\* request per kind of refusal
AllRequesters == { "admin", "staff", "con", "out", "anon" }
Messages      == { "", "leaning" }               \* POST message of report_issue
Statuses      == { "ACTIVE", "COMPLETED" }
AdminProject  == 1                               \* the project whose status changes

AdminBounds ==
  /\ Len(poles') <= MaxAdminItems
  /\ Len(log') <= MaxAdminLog
  /\ Len(issues') <= MaxIssues
  /\ \A k \in DOMAIN cache' : cache'[k] <= MaxIssues

AdminCreateItem ==
  \E pr \in ProjectIds :
    /\ Commit(create_project_item(Db, "con", pr, "POST",
                                  [f \in { g.id : g \in FieldDefsOf(pr) } |-> "Bari"]))
    /\ AdminBounds

AdminUpload ==
  \E p \in PoleIds :
    Commit(pole_detail(Db, "con", p, "POST", "1", TRUE, "ok")) /\ AdminBounds

AdminDeleteEvidence ==
  \E u \in {"con", "out"}, e \in BagToSet(evidence) :
    Commit(delete_evidence(Db, u, e)) /\ AdminBounds

ProjectDetail ==
  \E pr \in ProjectIds :
    CommitAll(project_detail(Db, "out", pr)) /\ AdminBounds

ProjectLogs ==
  CommitAll(project_logs(Db, "con", AdminProject)) /\ AdminBounds

ProjectIssues ==
  CommitAll(project_issues(Db, "anon", AdminProject)) /\ AdminBounds

ExportProjectLogs ==
  \E pr \in ProjectIds :
    CommitAll(export_project_logs(Db, "con", pr)) /\ AdminBounds

MarkProjectCompleted ==
  CommitAll(mark_project_completed(Db, "admin", AdminProject)) /\ AdminBounds

ReportIssue ==
  \E p \in PoleIds :
    CommitAll(report_issue(Db, "10.0.0.1", p, "POST", "leaning")) /\ AdminBounds

ResolveIssue ==
  \E u \in {"con", "out"}, i \in DOMAIN issues :
    CommitAll(resolve_issue(Db, u, i)) /\ AdminBounds

AdminMarkResolved ==
  \E queryset \in SUBSET (DOMAIN issues) :
    /\ queryset # {}
    /\ CommitAll(mark_resolved(Db, "admin", queryset))
    /\ AdminBounds

AdminProjectChange ==
  \E new_status \in Statuses :
    CommitAll(project_admin_change(Db, "admin", AdminProject, new_status)) /\ AdminBounds

\* ProjectLog.objects.create starts, and stops, raising
AuditFails ==
  /\ ~auditDown
  /\ auditDown' = TRUE
  /\ UNCHANGED <<poles, fieldValues, evidence, log, msg, procs, status, issues, cache>>

AuditRecovers ==
  /\ auditDown
  /\ auditDown' = FALSE
  /\ UNCHANGED <<poles, fieldValues, evidence, log, msg, procs, status, issues, cache>>

NextAdmin ==
  \/ AdminCreateItem
  \/ AdminUpload
  \/ AdminDeleteEvidence
  \/ ProjectDetail
  \/ ProjectLogs
  \/ ProjectIssues
  \/ ExportProjectLogs
  \/ MarkProjectCompleted
  \/ ReportIssue
  \/ ResolveIssue
  \/ AdminMarkResolved
  \/ AdminProjectChange

SpecAdmin == Init /\ [][NextAdmin]_vars

\* ------------------------------ the same with the audit insert failing
NextAudit ==
  \/ (AdminCreateItem /\ Len(log') <= MaxAuditLog)
  \/ (AdminUpload /\ Len(log') <= MaxAuditLog)
  \/ (MarkProjectCompleted /\ Len(log') <= MaxAuditLog)
  \/ (ReportIssue /\ Len(log') <= MaxAuditLog)
  \/ (ResolveIssue /\ Len(log') <= MaxAuditLog)
  \/ AuditFails
  \/ AuditRecovers

SpecAudit == Init /\ [][NextAudit]_vars

\* ------------------- the anonymous endpoints, one request at a time (SpecClient)
Uuids == ClientUuids \cup ProjectUuids \cup {"uuid-0"}   \* the uuid of the URL

\* report_issue from the first address runs up to its limit; the other counters
\* are cut short
ClientBounds ==
  /\ Len(poles') <= MaxAdminItems
  /\ Len(log') <= MaxAuditLog
  /\ Len(issues') <= MaxIssues
  /\ \A k \in DOMAIN cache' : k # RateKey("report_issue", "10.0.0.1") => cache'[k] <= MaxViews

ClientCreateItem ==
  /\ Commit(create_project_item(Db, "con", AdminProject, "POST", [f \in {1} |-> "Bari"]))
  /\ ClientBounds

ClientMarkCompleted ==
  CommitAll(mark_project_completed(Db, "admin", AdminProject)) /\ ClientBounds

ClientDashboard ==
  \E client_uuid \in {"client-uuid-1", "uuid-0"} :
    CommitAll(client_dashboard(Db, "10.0.0.1", client_uuid)) /\ ClientBounds

ClientCityView ==
  \E client_uuid \in {"uuid-1", "uuid-0"} :
    CommitAll(client_city_view(Db, "10.0.0.1", client_uuid)) /\ ClientBounds

ClientReportIssue ==
  \E ip \in Addresses, p \in PoleIds, message \in Messages :
    CommitAll(report_issue(Db, ip, p, "POST", message)) /\ ClientBounds

\* the key set by cache.set(key, 1, period) is gone once the period is over
WindowExpires ==
  \E k \in DOMAIN cache :
    /\ cache[k] > 0
    /\ cache' = [cache EXCEPT ![k] = 0]
    /\ UNCHANGED <<poles, fieldValues, evidence, log, auditDown, msg, procs, status, issues>>

NextClient ==
  \/ ClientCreateItem
  \/ ClientMarkCompleted
  \/ ClientDashboard
  \/ ClientCityView
  \/ ClientReportIssue
  \/ WindowExpires

SpecClient == Init /\ [][NextClient]_vars

\* ------------------------------- concurrent uploads, statement by statement
\* Each database statement of pole_detail's POST branch is one step (the
\* connection autocommits); procs[i] holds request i's position and locals.
UploadProcs == 1..Uploaders

\* the tables after the first item of project 1 was created
FirstItem ==
  create_project_item([poles |-> <<>>, fieldValues |-> {}, evidence |-> EmptyBag,
                       log |-> <<>>, auditDown |-> FALSE, status |-> NoStatusChange,
                       issues |-> <<>>, cache |-> EmptyCache],
                      "con", 1, "POST", [f \in {1} |-> "Bari"])

UploadIdle == [pc |-> "idle", pole |-> 0, stage |-> 0, image |-> FALSE, completed |-> FALSE]

InitUploadRace ==
  /\ poles = FirstItem.poles
  /\ fieldValues = FirstItem.fieldValues
  /\ evidence = FirstItem.evidence
  /\ log = FirstItem.log
  /\ auditDown = FALSE
  /\ msg = FirstItem.msg
  /\ procs = [i \in UploadProcs |-> UploadIdle]
  /\ status = NoStatusChange
  /\ issues = <<>>
  /\ cache = EmptyCache

UploadPt(i) == ProjectOf(poles[procs[i].pole].project).project_type

\* the request arrives: pole loaded, access checked, stage_id parsed
UploadBegin(i) ==
  /\ procs[i].pc = "idle"
  /\ \E p \in PoleIds, t \in {1, 2}, image \in BOOLEAN :
       procs' = [procs EXCEPT ![i] = [pc |-> "gate", pole |-> p, stage |-> t,
                                      image |-> image, completed |-> FALSE]]
  /\ UNCHANGED <<poles, fieldValues, evidence, log, auditDown, msg,
               status, issues, cache>>

\* the sequence gate's queries
UploadGate(i) ==
  /\ procs[i].pc = "gate"
  /\ LET missing_stages == MissingStages(evidence, procs[i].pole, UploadPt(i),
                                         StageOf(procs[i].stage))
     IN IF missing_stages # <<>>
        THEN /\ procs' = [procs EXCEPT ![i].pc = "done"]
             /\ msg' = [op |-> "pole_detail", kind |-> "sequence_locked",
                        locks |-> <<>>, missing |-> missing_stages, alert |-> <<>>]
        ELSE /\ procs' = [procs EXCEPT ![i].pc = "exists"]
             /\ msg' = msg
  /\ UNCHANGED <<poles, fieldValues, evidence, log, auditDown, status, issues, cache>>

\* Evidence.objects.filter(pole=pole, stage=stage_obj).exists()
UploadExists(i) ==
  /\ procs[i].pc = "exists"
  /\ procs' = [procs EXCEPT ![i].pc =
                 IF EvidenceExists(evidence, procs[i].pole, procs[i].stage)
                 THEN "delete" ELSE "form"]
  /\ UNCHANGED <<poles, fieldValues, evidence, log, auditDown, msg,
               status, issues, cache>>

\* Evidence.objects.filter(pole=pole, stage=stage_obj).delete()
UploadDelete(i) ==
  /\ procs[i].pc = "delete"
  /\ evidence' = EvidenceDeleted(evidence, procs[i].pole, procs[i].stage)
  /\ procs' = [procs EXCEPT ![i].pc = "logdelete"]
  /\ UNCHANGED <<poles, fieldValues, log, auditDown, msg, status, issues, cache>>

UploadLogDelete(i) ==
  /\ procs[i].pc = "logdelete"
  /\ log' = log_action(log, auditDown, poles[procs[i].pole].project, UserOf("con"),
                       "Re-Uploaded Evidence", poles[procs[i].pole].identifier,
                       <<"Overwrote stage: ", StageOf(procs[i].stage).name>>)
  /\ procs' = [procs EXCEPT ![i].pc = "form"]
  /\ UNCHANGED <<poles, fieldValues, evidence, auditDown, msg, status, issues, cache>>

\* form.is_valid(), and the "Upload failed." rendering when it is not
UploadForm(i) ==
  /\ procs[i].pc = "form"
  /\ IF EvidenceForm_is_valid(procs[i].image, "ok")
     THEN /\ procs' = [procs EXCEPT ![i].pc = "save"]
          /\ msg' = msg
     ELSE /\ procs' = [procs EXCEPT ![i].pc = "done"]
          /\ msg' = Msg("pole_detail", "upload_failed")
  /\ UNCHANGED <<poles, fieldValues, evidence, log, auditDown, status, issues, cache>>

\* evidence.save()
UploadSave(i) ==
  /\ procs[i].pc = "save"
  /\ evidence' = EvidenceSaved(evidence, procs[i].pole, procs[i].stage)
  /\ procs' = [procs EXCEPT ![i].pc = "log"]
  /\ UNCHANGED <<poles, fieldValues, log, auditDown, msg, status, issues, cache>>

UploadLog(i) ==
  /\ procs[i].pc = "log"
  /\ log' = log_action(log, auditDown, poles[procs[i].pole].project, UserOf("con"),
                       "Uploaded Evidence", poles[procs[i].pole].identifier,
                       <<"Stage: ", StageOf(procs[i].stage).name>>)
  /\ procs' = [procs EXCEPT ![i].pc = "count"]
  /\ UNCHANGED <<poles, fieldValues, evidence, auditDown, msg, status, issues, cache>>

\* the two count() queries
UploadCount(i) ==
  /\ procs[i].pc = "count"
  /\ procs' = [procs EXCEPT ![i].pc = "polesave",
                            ![i].completed = IsCompleted(evidence, procs[i].pole, UploadPt(i))]
  /\ UNCHANGED <<poles, fieldValues, evidence, log, auditDown, msg,
               status, issues, cache>>

\* pole.save() and the success redirect
UploadPoleSave(i) ==
  /\ procs[i].pc = "polesave"
  /\ poles' = [poles EXCEPT ![procs[i].pole].is_completed = procs[i].completed]
  /\ msg' = Msg("pole_detail", "upload_ok")
  /\ procs' = [procs EXCEPT ![i].pc = "done"]
  /\ UNCHANGED <<fieldValues, evidence, log, auditDown, status, issues, cache>>

NextUploadRace ==
  \E i \in UploadProcs :
    \/ UploadBegin(i)
    \/ UploadGate(i)
    \/ UploadExists(i)
    \/ UploadDelete(i)
    \/ UploadLogDelete(i)
    \/ UploadForm(i)
    \/ UploadSave(i)
    \/ UploadLog(i)
    \/ UploadCount(i)
    \/ UploadPoleSave(i)

SpecUploadRace == InitUploadRace /\ [][NextUploadRace]_vars

\* ----------------------- concurrent item creations, statement by statement
CreateProcs == 1..Creators

CreateIdle == [pc |-> "idle", pr |-> 0, answers |-> <<>>, temp_id |-> <<>>, pole |-> 0,
               base |-> <<>>, new_identifier |-> <<>>, c |-> 0]

InitCreateRace ==
  /\ poles = <<>>
  /\ fieldValues = {}
  /\ evidence = EmptyBag
  /\ log = <<>>
  /\ auditDown = FALSE
  /\ msg = NoMsg
  /\ procs = [i \in CreateProcs |-> CreateIdle]
  /\ status = NoStatusChange
  /\ issues = <<>>
  /\ cache = EmptyCache

\* the request arrives: project loaded, access checked, form valid
CreateBegin(i) ==
  /\ procs[i].pc = "idle"
  /\ \E pr \in ProjectIds : \E answers \in ItemForms(pr, FewAnswers) :
       /\ DynamicItemForm_is_valid(pr, answers)
       /\ procs' = [procs EXCEPT ![i].pc = "temp", ![i].pr = pr, ![i].answers = answers]
  /\ UNCHANGED <<poles, fieldValues, evidence, log, auditDown, msg,
               status, issues, cache>>

\* temp_id = f"TEMP-{project.poles.count() + 1}"
CreateTempId(i) ==
  /\ procs[i].pc = "temp"
  /\ procs' = [procs EXCEPT
                 ![i].pc = "create",
                 ![i].temp_id = TempIdentifier(Cardinality(PolesOf(poles, procs[i].pr)) + 1)]
  /\ UNCHANGED <<poles, fieldValues, evidence, log, auditDown, msg,
               status, issues, cache>>

\* Pole.objects.create(project=project, identifier=temp_id)
CreatePole(i) ==
  /\ procs[i].pc = "create"
  /\ poles' = Append(poles, [project |-> procs[i].pr, identifier |-> procs[i].temp_id,
                             is_completed |-> FALSE])
  /\ procs' = [procs EXCEPT ![i].pc = IF FieldDefsOf(procs[i].pr) = {}
                                      THEN "identifier" ELSE "values",
                            ![i].pole = Len(poles) + 1]
  /\ UNCHANGED <<fieldValues, evidence, log, auditDown, msg, status, issues, cache>>

\* ItemFieldValue.objects.create(...) for the project's field definition
CreateValues(i) ==
  /\ procs[i].pc = "values"
  /\ fieldValues' = fieldValues \cup NewFieldValues(procs[i].pr, procs[i].pole, procs[i].answers)
  /\ procs' = [procs EXCEPT ![i].pc = "identifier"]
  /\ UNCHANGED <<poles, evidence, log, auditDown, msg, status, issues, cache>>

\* "Identifier Logic": the count() query of the branch taken
CreateIdentifier(i) ==
  /\ procs[i].pc = "identifier"
  /\ LET base == Candidate(poles, fieldValues, ProjectOf(procs[i].pr), procs[i].pole) IN
     procs' = [procs EXCEPT ![i].pc = "unique", ![i].base = base,
                            ![i].new_identifier = base, ![i].c = 1]
  /\ UNCHANGED <<poles, fieldValues, evidence, log, auditDown, msg,
               status, issues, cache>>

\* one evaluation of the while condition, and the loop body when it is true
CreateUniqueCheck(i) ==
  /\ procs[i].pc = "unique"
  /\ IF IdentifierTaken(poles, procs[i].pr, procs[i].pole, procs[i].new_identifier)
     THEN procs' = [procs EXCEPT ![i].new_identifier = Suffixed(procs[i].base, procs[i].c),
                                 ![i].c = procs[i].c + 1]
     ELSE procs' = [procs EXCEPT ![i].pc = "save"]
  /\ UNCHANGED <<poles, fieldValues, evidence, log, auditDown, msg,
               status, issues, cache>>

\* pole.identifier = new_identifier; pole.save()
CreateSave(i) ==
  /\ procs[i].pc = "save"
  /\ poles' = [poles EXCEPT ![procs[i].pole] =
                 [project |-> procs[i].pr, identifier |-> procs[i].new_identifier,
                  is_completed |-> FALSE]]
  /\ procs' = [procs EXCEPT ![i].pc = "log"]
  /\ UNCHANGED <<fieldValues, evidence, log, auditDown, msg, status, issues, cache>>

CreateLog(i) ==
  /\ procs[i].pc = "log"
  /\ log' = log_action(log, auditDown, procs[i].pr, UserOf("con"), "Created Item",
                       procs[i].new_identifier, CreateDetails(procs[i].pr, procs[i].answers))
  /\ msg' = Msg("create_project_item", "created")
  /\ procs' = [procs EXCEPT ![i].pc = "done"]
  /\ UNCHANGED <<poles, fieldValues, evidence, auditDown, status, issues, cache>>

NextCreateRace ==
  \E i \in CreateProcs :
    \/ CreateBegin(i)
    \/ CreateTempId(i)
    \/ CreatePole(i)
    \/ CreateValues(i)
    \/ CreateIdentifier(i)
    \/ CreateUniqueCheck(i)
    \/ CreateSave(i)
    \/ CreateLog(i)

SpecCreateRace == InitCreateRace /\ [][NextCreateRace]_vars

\* -------- items created one at a time, and renamed in the admin site (SpecNames)
\* the names the change form is given: the one the last item of the project
\* will be offered, and its first suffixed form
AdminIdentifiers(pr) ==
  LET project == ProjectOf(pr)
      offered == IF \E f \in FieldDefsOf(pr) : f.is_grouping_key
                 THEN GroupIdentifier(project.name, "Bari", MaxNamed)
                 ELSE UnitIdentifier(TypeOf(project.project_type).unit_name, MaxNamed)
  IN { offered, Suffixed(offered, 1) }

NamesCreateItem ==
  \E pr \in ProjectIds :
    /\ Commit(create_project_item(Db, "con", pr, "POST",
                                  [f \in { g.id : g \in FieldDefsOf(pr) } |-> "Bari"]))
    /\ Len(poles') <= MaxNamed

AdminPoleChange ==
  \E p \in PoleIds : \E identifier \in AdminIdentifiers(poles[p].project) :
    CommitAll(pole_admin_change(Db, "admin", p, identifier))

NextNames ==
  \/ NamesCreateItem
  \/ AdminPoleChange

SpecNames == Init /\ [][NextNames]_vars

\* ---------------- uploads with their coordinates, one at a time (SpecGeo)
\* procs[1] holds the record saved by the last upload, the arguments of its
\* watermark call and the coordinates of its audit entry
InitGeo ==
  /\ poles = <<>>
  /\ fieldValues = {}
  /\ evidence = EmptyBag
  /\ log = <<>>
  /\ auditDown = FALSE
  /\ msg = NoMsg
  /\ procs = [i \in {1} |-> NoMedia]
  /\ status = NoStatusChange
  /\ issues = <<>>
  /\ cache = EmptyCache

GeoBounds == Len(poles') <= MaxAdminItems /\ Len(log') <= MaxGeoLog

GeoCreateItem ==
  \E pr \in ProjectIds :
    /\ Commit(create_project_item(Db, "con", pr, "POST",
                                  [f \in { g.id : g \in FieldDefsOf(pr) } |-> "Bari"]))
    /\ GeoBounds

GeoUpload ==
  \E p \in PoleIds, t \in {"1", "2", "3", "4"}, coords \in ClientCoords,
     exif \in ExifOutcomes, wm \in WatermarkOutcomes :
    LET r == pole_detail_media(Db, "con", p, t, TRUE, coords, exif, wm) IN
    /\ poles' = r.poles
    /\ fieldValues' = r.fieldValues
    /\ evidence' = r.evidence
    /\ log' = r.log
    /\ msg' = r.msg
    /\ procs' = [procs EXCEPT ![1] = r.media]
    /\ UNCHANGED <<auditDown, status, issues, cache>>
    /\ GeoBounds

NextGeo ==
  \/ GeoCreateItem
  \/ GeoUpload

SpecGeo == InitGeo /\ [][NextGeo]_vars

\* ------------------ concurrent report_issue requests, statement by statement
\* One expiry window of rate_limit's counter: each client sends its requests
\* one after the other, the clients run concurrently, and the wrapper's
\* cache.get, cache.set / cache.incr and the view are separate steps.
RateProcs == 1..Reporters

RateIdle ==
  [pc |-> "idle", ip |-> "10.0.0.1", pole |-> 0, method |-> "GET", count |-> 0,
   sent |-> 0, admitted |-> [a \in Addresses |-> 0]]

InitRateRace ==
  /\ poles = FirstItem.poles
  /\ fieldValues = FirstItem.fieldValues
  /\ evidence = FirstItem.evidence
  /\ log = FirstItem.log
  /\ auditDown = FALSE
  /\ msg = FirstItem.msg
  /\ procs = [i \in RateProcs |-> RateIdle]
  /\ status = NoStatusChange
  /\ issues = <<>>
  /\ cache = EmptyCache

\* POST requests on their way to the view
RatePosting == { j \in RateProcs : procs[j].pc # "idle" /\ procs[j].method = "POST" }

\* the request arrives: ip = request.META.get('REMOTE_ADDR')
RateBegin(i) ==
  /\ procs[i].pc = "idle"
  /\ procs[i].sent < ReportsEach
  /\ \E ip \in Addresses, p \in PoleIds, method \in {"GET", "POST"} :
       /\ method = "POST" => Len(issues) + Cardinality(RatePosting) < MaxIssues
       /\ procs' = [procs EXCEPT ![i].pc = "get", ![i].ip = ip, ![i].pole = p,
                                 ![i].method = method, ![i].sent = @ + 1]
  /\ UNCHANGED <<poles, fieldValues, evidence, log, auditDown, msg, status, issues, cache>>

\* count = cache.get(key, 0); if count >= limit: return HttpResponseForbidden
RateGet(i) ==
  /\ procs[i].pc = "get"
  /\ LET count == cache[RateKey("report_issue", procs[i].ip)] IN
     IF count >= ReportIssueLimit
     THEN /\ procs' = [procs EXCEPT ![i].pc = "idle", ![i].count = count]
          /\ msg' = Msg("report_issue", "too_many_requests")
     ELSE /\ procs' = [procs EXCEPT ![i].pc = "count", ![i].count = count,
                                    ![i].admitted[procs[i].ip] = @ + 1]
          /\ msg' = msg
  /\ UNCHANGED <<poles, fieldValues, evidence, log, auditDown, status, issues, cache>>

\* if count == 0: cache.set(key, 1, period) else: cache.incr(key)
RateCount(i) ==
  /\ procs[i].pc = "count"
  /\ cache' = [cache EXCEPT ![RateKey("report_issue", procs[i].ip)] =
                 IF procs[i].count = 0 THEN 1 ELSE @ + 1]
  /\ procs' = [procs EXCEPT ![i].pc = "view"]
  /\ UNCHANGED <<poles, fieldValues, evidence, log, auditDown, msg, status, issues>>

\* return view_func(request, *args, **kwargs)
RateView(i) ==
  /\ procs[i].pc = "view"
  /\ LET r == ReportIssueView(Db, procs[i].pole, procs[i].method, "leaning") IN
     /\ poles' = r.poles /\ fieldValues' = r.fieldValues /\ evidence' = r.evidence
     /\ log' = r.log /\ msg' = r.msg
     /\ status' = r.status /\ issues' = r.issues /\ cache' = r.cache
  /\ procs' = [procs EXCEPT ![i].pc = "idle"]
  /\ UNCHANGED auditDown

NextRateRace ==
  \E i \in RateProcs :
    \/ RateBegin(i)
    \/ RateGet(i)
    \/ RateCount(i)
    \/ RateView(i)

SpecRateRace == InitRateRace /\ [][NextRateRace]_vars

\* ====================================================================
\* Properties
\* ====================================================================
TypeOfPole(table, pole) == ProjectOf(table[pole].project).project_type
Records(table, pole, stage) == CopiesIn([pole |-> pole, stage |-> stage], table)
StageNamed(pt, name) == CHOOSE s \in StagesOfType(pt) : s.name = name
Range(seq) == { seq[i] : i \in DOMAIN seq }

\* the stages of the pole's type below the target's order without a record
MissingBelow(table, polesTable, pole, target) ==
  { s \in StageDefinition : /\ s.project_type = TypeOfPole(polesTable, pole)
                            /\ s.order < target.order
                            /\ Records(table, pole, s.id) = 0 }

\* C1: an upload for target stage t is rejected as a sequence violation iff
\* some stage of the item's project type with a lower order than t has no
\* evidence record on the item, whether or not that stage is required; the
\* message names exactly those stages, in ascending order.
C1_SequenceGate ==
  \A p \in PoleIds, t \in StageDefinition, form \in {<<TRUE, "ok">>, <<FALSE, "ok">>} :
    LET r       == pole_detail(Db, "con", p, "POST", ToString(t.id), form[1], form[2])
        missing == MissingBelow(evidence, poles, p, t)
        pt      == TypeOfPole(poles, p)
    IN /\ (r.msg.kind = "sequence_locked") <=> (missing # {})
       /\ missing # {} =>
            /\ Range(r.msg.missing) = { s.name : s \in missing }
            /\ Len(r.msg.missing) = Cardinality(missing)
            /\ \A i, j \in DOMAIN r.msg.missing :
                 i < j => StageNamed(pt, r.msg.missing[i]).order
                            < StageNamed(pt, r.msg.missing[j]).order

\* C1 witness: an upload was rejected naming two missing stages, the
\* optional one among them
C1_Witness ==
  /\ msg.kind = "sequence_locked"
  /\ msg.missing = <<"Excavation", "Planting">>

\* the stage at position i (from 1) of a type's stages in ascending order
StageAt(pt, i) ==
  CHOOSE s \in StagesOfType(pt) :
    Cardinality({ t \in StagesOfType(pt) : t.order < s.order }) = i - 1

\* C2: on every rendering of pole_detail the first stage is unlocked and the
\* stage at each later position is locked iff the stage just before it has
\* no evidence record among those the view loaded; earlier stages do not
\* matter.
C2_StageLocks ==
  \A p \in PoleIds :
    \A q \in {<<"GET", "", <<FALSE, "ok">> >>, <<"POST", "", <<TRUE, "ok">> >>}
               \cup ({"POST"} \X {ToString(t) : t \in StageIds} \X {<<FALSE, "ok">>}) :
      LET r  == pole_detail(Db, "con", p, q[1], q[2], q[3][1], q[3][2])
          pt == TypeOfPole(poles, p)
          n  == Cardinality(StagesOfType(pt))
      IN r.msg.kind \in {"view", "upload_failed", "error"} =>
           /\ Len(r.msg.locks) = n
           /\ n > 0 => ~r.msg.locks[1]
           /\ \A i \in 2..n :
                r.msg.locks[i] <=> Records(evidence, p, StageAt(pt, i - 1).id) = 0

\* C2 witness: a view of an item with evidence for the second stage only: the
\* third stage is unlocked although the first has no record
C2_Witness ==
  /\ msg.kind = "view"
  /\ msg.locks = <<FALSE, TRUE, FALSE>>
  /\ \E p \in PoleIds : /\ Records(evidence, p, 1) = 0
                        /\ Records(evidence, p, 2) = 1
                        /\ TypeOfPole(poles, p) = "TA"

\* every required stage of the pole's type has exactly one record on the pole
RequiredExactlyOnce(table, polesTable, pole) ==
  \A s \in StagesOfType(TypeOfPole(polesTable, pole)) :
    s.is_required => Records(table, pole, s.id) = 1

\* C3: after every successful upload and every delete_evidence on an item,
\* its stored is_completed is true iff every required stage of the item's
\* project type has exactly one evidence record on the item.
C3_CompletionRule ==
  [][ \A p \in PoleIds :
        ( \/ \E t \in StageIds :
               /\ Commit(pole_detail(Db, "con", p, "POST", ToString(t), TRUE, "ok"))
               /\ msg'.kind = "upload_ok"
          \/ \E e \in BagToSet(evidence) :
               /\ e.pole = p
               /\ Commit(delete_evidence(Db, "con", e)) )
        => (poles'[p].is_completed <=> RequiredExactlyOnce(evidence', poles', p))
    ]_vars

\* C4: at the end of every request, each item's is_completed equals the value
\* the completion rule computes from the evidence records that then exist.
C4_CompletionInSync ==
  \A p \in PoleIds :
    poles[p].is_completed = IsCompleted(evidence, p, TypeOfPole(poles, p))

\* C8: an upload rejected as a sequence violation writes nothing: no evidence
\* record is created or deleted, no is_completed changes, no audit entry is
\* appended.
C8_SequenceRejectionWritesNothing ==
  \A p \in PoleIds, t \in StageIds, form \in {<<TRUE, "ok">>, <<TRUE, "oversized">>} :
    LET r == pole_detail(Db, "con", p, "POST", ToString(t), form[1], form[2]) IN
    r.msg.kind = "sequence_locked" =>
      /\ r.evidence = evidence
      /\ r.poles = poles
      /\ r.log = log
      /\ r.fieldValues = fieldValues

\* C8 witness: an upload was rejected on an item that already has evidence
\* and audit entries
C8_Witness ==
  /\ msg.kind = "sequence_locked"
  /\ msg.missing = <<"Planting">>
  /\ \E p \in PoleIds : Records(evidence, p, 1) = 1
  /\ Len(log) >= 2

\* C9: an upload that fails validation (malformed stage id, invalid evidence
\* form) leaves the evidence records, is_completed and the audit log as they
\* were, also when the target stage already had a record.
C9_ValidationWritesNothing ==
  [][ (msg'.op = "pole_detail" /\ msg'.kind \in {"invalid_stage_id", "upload_failed"})
        => UNCHANGED <<evidence, poles, log>> ]_vars

LogActions(entries) == [ i \in DOMAIN entries |-> entries[i].action ]

\* C10: a successful upload for a stage that already has a record replaces
\* it, leaving exactly one record for the stage, and appends a "Re-Uploaded
\* Evidence" entry ahead of the "Uploaded Evidence" one; a first-time upload
\* appends "Uploaded Evidence" only.
C10_ReuploadReplaces ==
  \A p \in PoleIds, t \in StageIds :
    LET r     == pole_detail(Db, "con", p, "POST", ToString(t), TRUE, "ok")
        had   == Records(evidence, p, t) > 0
        added == SubSeq(r.log, Len(log) + 1, Len(r.log))
    IN r.msg.kind = "upload_ok" =>
         /\ Records(r.evidence, p, t) = 1
         /\ SubSeq(r.log, 1, Len(log)) = log
         /\ \A i \in DOMAIN added : added[i].project = poles[p].project
         /\ had  => LogActions(added) = <<"Re-Uploaded Evidence", "Uploaded Evidence">>
         /\ ~had => LogActions(added) = <<"Uploaded Evidence">>

\* C10 witness: a re-upload succeeded and left one record and both entries
C10_Witness ==
  /\ msg.kind = "upload_ok"
  /\ Len(log) >= 2
  /\ log[Len(log) - 1].action = "Re-Uploaded Evidence"
  /\ log[Len(log)].action = "Uploaded Evidence"
  /\ \E p \in PoleIds : Records(evidence, p, 1) = 1

\* the grouping value stored for a pole ("" when there is none)
GroupValueOf(values, polesTable, pole) ==
  LET rows == { v \in values :
                  /\ v.pole = pole
                  /\ \E f \in FieldDefsOf(polesTable[pole].project) :
                       f.is_grouping_key /\ f.id = v.field_def }
  IN IF rows = {} THEN "" ELSE (CHOOSE v \in rows : TRUE).value

\* C7: with items created one after another, the k-th item of a project
\* created with grouping value V is named "{ProjectName}_{V} #k"; an item
\* with no grouping field or value is named "{unitName} #n", n the number of
\* items of the project including it.
C7_Identifiers ==
  \A i \in PoleIds :
    LET project == ProjectOf(poles[i].project)
        V == GroupValueOf(fieldValues, poles, i)
        k == Cardinality({ j \in 1..i : /\ poles[j].project = project.id
                                        /\ GroupValueOf(fieldValues, poles, j) = V })
        n == Cardinality({ j \in 1..i : poles[j].project = project.id })
    IN poles[i].identifier =
         IF V # "" THEN <<project.name, "_", V, " #", ToString(k)>>
         ELSE <<TypeOf(project.project_type).unit_name, " #", ToString(n)>>

\* C7 witness: the second "Bari" item of the project is its third item
C7_Witness ==
  /\ Len(poles) = 3
  /\ poles[1].identifier = <<"City", "_", "Bari", " #", "1">>
  /\ poles[2].identifier = <<"City", "_", "Kota", " #", "1">>
  /\ poles[3].identifier = <<"City", "_", "Bari", " #", "2">>

\* C5: there is at most one evidence record per (item, stage) pair in every
\* state, also while two uploads for the same item and stage interleave
\* their exists, delete and insert statements.
C5_OneRecordPerStage ==
  \A r \in BagToSet(evidence) : CopiesIn(r, evidence) <= 1

\* C6: when concurrent create_project_item requests of one project with the
\* same grouping value have all finished, the identifiers they stored are
\* pairwise distinct.
C6_DistinctIdentifiers ==
  (\A i \in DOMAIN procs : procs[i].pc = "done") =>
    \A i, j \in DOMAIN procs :
      ( /\ i # j
        /\ procs[i].pr = procs[j].pr
        /\ GroupValueOf(fieldValues, poles, procs[i].pole) # ""
        /\ GroupValueOf(fieldValues, poles, procs[i].pole)
             = GroupValueOf(fieldValues, poles, procs[j].pole) )
        => poles[procs[i].pole].identifier # poles[procs[j].pole].identifier

\* what a request leaves apart from the audit log
Outcome(r)    == <<r.poles, r.fieldValues, r.evidence, r.msg>>
OutcomeAll(r) == <<r.poles, r.fieldValues, r.evidence, r.msg, r.status, r.issues, r.cache>>
DbUp   == [Db EXCEPT !.auditDown = FALSE]
DbDown == [Db EXCEPT !.auditDown = TRUE]

\* C11: log_action never raises: with the audit insert failing, every
\* business action ends with the same response and the same committed state
\* as with the insert succeeding (the evidence saved and the completion
\* recomputed, the item named, the issue resolved, the project COMPLETED);
\* only the log entry is missing.
C11_LogFailureSwallowed ==
  /\ \A pr \in ProjectIds :
       LET a == [f \in { g.id : g \in FieldDefsOf(pr) } |-> "Bari"] IN
       /\ Outcome(create_project_item(DbDown, "con", pr, "POST", a))
            = Outcome(create_project_item(DbUp, "con", pr, "POST", a))
       /\ create_project_item(DbDown, "con", pr, "POST", a).log = log
       /\ OutcomeAll(mark_project_completed(DbDown, "admin", pr))
            = OutcomeAll(mark_project_completed(DbUp, "admin", pr))
       /\ mark_project_completed(DbDown, "admin", pr).log = log
  /\ \A p \in PoleIds :
       /\ \A t \in StageIds :
            /\ Outcome(pole_detail(DbDown, "con", p, "POST", ToString(t), TRUE, "ok"))
                 = Outcome(pole_detail(DbUp, "con", p, "POST", ToString(t), TRUE, "ok"))
            /\ pole_detail(DbDown, "con", p, "POST", ToString(t), TRUE, "ok").log = log
       /\ OutcomeAll(report_issue(DbDown, "10.0.0.1", p, "POST", "leaning"))
            = OutcomeAll(report_issue(DbUp, "10.0.0.1", p, "POST", "leaning"))
       /\ report_issue(DbDown, "10.0.0.1", p, "POST", "leaning").log = log
  /\ \A e \in BagToSet(evidence) :
       /\ Outcome(delete_evidence(DbDown, "con", e)) = Outcome(delete_evidence(DbUp, "con", e))
       /\ delete_evidence(DbDown, "con", e).log = log
  /\ \A i \in DOMAIN issues :
       /\ OutcomeAll(resolve_issue(DbDown, "con", i)) = OutcomeAll(resolve_issue(DbUp, "con", i))
       /\ resolve_issue(DbDown, "con", i).log = log

\* C11 witness: while the insert fails the project was marked completed after
\* an upload was saved and an issue resolved, none of them logged
C11_Witness ==
  /\ auditDown
  /\ msg = Msg("mark_project_completed", "completed")
  /\ status[AdminProject] = "COMPLETED"
  /\ \E p \in PoleIds : Records(evidence, p, 1) = 1
  /\ \E i \in DOMAIN issues : issues[i].status = "RESOLVED"
  /\ \A i \in DOMAIN log : log[i].action \notin {"Uploaded Evidence", "Resolved Issue",
                                                   "Project Completed"}

\* an entry with this action is among those the step appended
Logged(action) ==
  \E i \in (Len(log) + 1)..Len(log') : log'[i].action = action

\* C12: every state-mutating action appends an audit entry of the matching
\* kind: item creation, evidence upload, re-upload and deletion, an issue
\* flagged by a client, an issue set to RESOLVED by any path, and a project
\* marked completed.
C12_MutationsLogged ==
  [][ /\ Len(poles') > Len(poles) => Logged("Created Item")
      /\ evidence' # evidence =>
           \/ Logged("Uploaded Evidence")
           \/ Logged("Re-Uploaded Evidence")
           \/ Logged("Deleted Evidence")
      /\ Len(issues') > Len(issues) => Logged("Client Flagged Issue")
      /\ (\E i \in DOMAIN issues : issues[i].status = "OPEN" /\ issues'[i].status = "RESOLVED")
           => Logged("Resolved Issue")
      /\ (msg'.op = "mark_project_completed" /\ status' # status) => Logged("Project Completed")
    ]_vars

IsPrefix(a, b) == Len(a) <= Len(b) /\ SubSeq(b, 1, Len(a)) = a

Granted(u, pr) ==
  \/ \E x \in User : x.username = u /\ (x.is_superuser \/ x.is_staff)
  \/ \E q \in Project : q.id = pr /\ u \in q.contractors

\* the response of a signed-in requester u to an operation on project pr is
\* the denial exactly when u is not granted, and the denial carries u and pr
Checked(r, op, u, pr) ==
  /\ (r.msg.kind = "permission_denied") <=> ~Granted(u, pr)
  /\ r.msg.kind = "permission_denied" =>
       /\ r.msg.op = op
       /\ r.msg.alert = <<u, pr>>
       /\ r.poles = poles /\ r.fieldValues = fieldValues
       /\ r.evidence = evidence /\ r.log = log

\* the same for the operations that can also change issues and status
CheckedAll(r, op, u, pr) ==
  /\ Checked(r, op, u, pr)
  /\ r.msg.kind = "permission_denied" =>
       r.status = status /\ r.issues = issues /\ r.cache = cache

\* C14: access to a project is granted iff the requester is a superuser,
\* staff, or an assigned contractor. Every project-scoped operation
\* (project_detail, project_logs, export_project_logs, create_project_item,
\* pole_detail, delete_evidence, project_issues, resolve_issue) answers a
\* signed-in requester with the denial exactly when access is not granted;
\* the denial names the user and the project and the request changes nothing.
C14_AccessChecked ==
  \A u \in AllRequesters \ {"anon"} :
    /\ \A pr \in ProjectIds :
         /\ CheckedAll(project_detail(Db, u, pr), "project_detail", u, pr)
         /\ CheckedAll(project_logs(Db, u, pr), "project_logs", u, pr)
         /\ CheckedAll(export_project_logs(Db, u, pr), "export_project_logs", u, pr)
         /\ CheckedAll(project_issues(Db, u, pr), "project_issues", u, pr)
         /\ \A method \in {"GET", "POST"} :
              Checked(create_project_item(Db, u, pr, method,
                        [f \in { g.id : g \in FieldDefsOf(pr) } |-> "Bari"]),
                      "create_project_item", u, pr)
    /\ \A p \in PoleIds :
         \A method \in {"GET", "POST"}, t \in StageIdRaws :
           Checked(pole_detail(Db, u, p, method, t, TRUE, "ok"),
                   "pole_detail", u, poles[p].project)
    /\ \A e \in BagToSet(evidence) :
         Checked(delete_evidence(Db, u, e), "delete_evidence", u, poles[e.pole].project)
    /\ \A i \in DOMAIN issues :
         CheckedAll(resolve_issue(Db, u, i), "resolve_issue", u, poles[issues[i].pole].project)

\* C14 witness: an unassigned contractor was denied resolving an issue of
\* project 1, which is still open, and an item of the project has evidence
C14_Witness ==
  /\ msg.op = "resolve_issue"
  /\ msg.kind = "permission_denied"
  /\ msg.alert = <<"out", 1>>
  /\ \E i \in DOMAIN issues : issues[i].status = "OPEN" /\ poles[issues[i].pole].project = 1
  /\ evidence # EmptyBag

\* the indices of the audit entries of a project
EntriesOf(pr) == { k \in DOMAIN log : log[k].project = pr }

\* the User cell of the row exported for an entry
UserCell(entry) == IF entry.user \in Usernames \ {"anon"} THEN entry.user ELSE "System/Client"

\* C20: the export of a project's log is the header row Timestamp, User,
\* Action, Target, Details, Latitude, Longitude followed by exactly one row
\* per audit entry of that project and none for another project's entries;
\* the User cell is the acting user's username, or "System/Client" for an
\* entry without an actor; the entries of anonymous client actions have no
\* actor.
C20_ExportRows ==
  /\ \A pr \in ProjectIds, u \in {"admin", "staff", "con"} :
       LET r    == export_project_logs(Db, u, pr)
           rows == r.msg.rows
       IN
       /\ r.msg.kind = "csv"
       /\ rows[1] = <<"Timestamp", "User", "Action", "Target", "Details", "Latitude", "Longitude">>
       /\ Len(rows) = 1 + Cardinality(EntriesOf(pr))
       /\ \A i \in 2..Len(rows) :
            /\ Len(rows[i]) = 7
            /\ Cardinality({ j \in 2..Len(rows) : rows[j] = rows[i] })
                 = Cardinality({ k \in EntriesOf(pr) :
                                   /\ rows[i][2] = UserCell(log[k])
                                   /\ rows[i][3] = log[k].action
                                   /\ rows[i][4] = log[k].target
                                   /\ rows[i][5] = log[k].details })
  /\ \A k \in DOMAIN log :
       log[k].action = "Client Flagged Issue" => log[k].user \notin Usernames

\* C20 witness: an exported file with a row of the contractor and a row of
\* an anonymous client's report
C20_Witness ==
  /\ msg.op = "export_project_logs"
  /\ msg.kind = "csv"
  /\ \E i, j \in 2..Len(msg.rows) :
       /\ msg.rows[i][2] = "con" /\ msg.rows[i][3] = "Created Item"
       /\ msg.rows[j][2] = "System/Client" /\ msg.rows[j][3] = "Client Flagged Issue"

\* the project has been marked completed: mark_project_completed wrote its entry
MarkedCompleted(pr) ==
  \E k \in DOMAIN log : log[k].project = pr /\ log[k].action = "Project Completed"

\* C18: only ACTIVE projects accept new issues: for an item whose project is
\* not ACTIVE, report_issue creates no issue and no audit entry, whatever the
\* address, method and message; and no step creates an issue on an item of a
\* project after the project was marked completed.
C18_ActiveProjectsOnly ==
  [][ /\ \A p \in PoleIds :
           status[poles[p].project] # "ACTIVE" =>
             \A ip \in Addresses, method \in {"GET", "POST"}, message \in Messages :
               /\ report_issue(Db, ip, p, method, message).issues = issues
               /\ report_issue(Db, ip, p, method, message).log = log
      /\ \A i \in DOMAIN issues' :
           (i \notin DOMAIN issues) => ~MarkedCompleted(poles[issues'[i].pole].project)
    ]_vars

\* C19: project status is a one-way, admin-only transition: the status of a
\* project changes only from ACTIVE to COMPLETED and only in a step of
\* mark_project_completed; a request to mark_project_completed by anyone but
\* an admin leaves the status unchanged; a COMPLETED project stays COMPLETED.
C19_StatusOneWay ==
  [][ /\ \A pr \in ProjectIds :
           /\ status'[pr] # status[pr] =>
                /\ status[pr] = "ACTIVE" /\ status'[pr] = "COMPLETED"
                /\ msg'.op = "mark_project_completed" /\ msg'.kind = "completed"
           /\ status[pr] = "COMPLETED" => status'[pr] = "COMPLETED"
           /\ \A u \in {"con", "out", "anon"} :
                mark_project_completed(Db, u, pr).status = status
    ]_vars

\* a response that is the rate limiter's refusal changed nothing at all
RejectedIdle(r, op) ==
  r.msg.kind = "too_many_requests" =>
    /\ r.msg.op = op
    /\ r.poles = poles /\ r.fieldValues = fieldValues /\ r.evidence = evidence
    /\ r.log = log /\ r.status = status /\ r.issues = issues /\ r.cache = cache

\* the request is refused exactly when its own (endpoint, address) budget is
\* spent, and it leaves every other budget as it was
OwnBudget(r, op, ip, limit) ==
  /\ (r.msg.kind = "too_many_requests") <=> (cache[<<op, ip>>] >= limit)
  /\ \A k \in DOMAIN cache : k # <<op, ip>> => r.cache[k] = cache[k]

\* C17: a request rejected by the rate limiter performs none of the wrapped
\* view's action: no issue, no audit entry, no other change; and the budgets
\* are independent: whether a request is rejected depends on the count of
\* its own endpoint and address only, and it consumes no other budget.
C17_RejectionIdle ==
  \A ip \in Addresses :
    /\ \A p \in PoleIds \cup {0}, method \in {"GET", "POST"}, message \in Messages :
         /\ RejectedIdle(report_issue(Db, ip, p, method, message), "report_issue")
         /\ OwnBudget(report_issue(Db, ip, p, method, message), "report_issue", ip, 5)
    /\ \A client_uuid \in Uuids :
         /\ RejectedIdle(client_dashboard(Db, ip, client_uuid), "client_dashboard")
         /\ OwnBudget(client_dashboard(Db, ip, client_uuid), "client_dashboard", ip, 10)
         /\ RejectedIdle(client_city_view(Db, ip, client_uuid), "client_city_view")
         /\ OwnBudget(client_city_view(Db, ip, client_uuid), "client_city_view", ip, 60)

\* C17 witness: a report from the first address was refused with its budget
\* of five spent, on an item of an ACTIVE project, while the second address
\* and the other endpoints have budget left
C17_Witness ==
  /\ msg.op = "report_issue"
  /\ msg.kind = "too_many_requests"
  /\ cache[<<"report_issue", "10.0.0.1">>] = 5
  /\ cache[<<"report_issue", "10.0.0.2">>] \in 1..4
  /\ cache[<<"client_city_view", "10.0.0.1">>] > 0
  /\ \E p \in PoleIds : status[poles[p].project] = "ACTIVE"

\* C15: an anonymous requester reads or reports on a project only through a
\* request keyed by the UUID of the project or its client: the two UUID-keyed
\* views show nothing for a UUID that is none of them, report_issue, whose
\* request carries an integer item id and no UUID, performs no action on the
\* item, and an anonymous request to a contractor or admin operation is sent
\* to the login page without any change.
C15_AnonymousByUuidOnly ==
  /\ \A ip \in Addresses :
       /\ client_dashboard(Db, ip, "uuid-0").msg.kind # "view"
       /\ client_city_view(Db, ip, "uuid-0").msg.kind # "view"
       /\ \A p \in PoleIds, method \in {"GET", "POST"}, message \in Messages :
            /\ report_issue(Db, ip, p, method, message).issues = issues
            /\ report_issue(Db, ip, p, method, message).log = log
  /\ \A pr \in ProjectIds :
       /\ project_detail(Db, "anon", pr) = All(Db, Msg("project_detail", "login_redirect"))
       /\ project_logs(Db, "anon", pr) = All(Db, Msg("project_logs", "login_redirect"))
       /\ export_project_logs(Db, "anon", pr)
            = All(Db, Msg("export_project_logs", "login_redirect"))
       /\ project_issues(Db, "anon", pr) = All(Db, Msg("project_issues", "login_redirect"))
       /\ mark_project_completed(Db, "anon", pr)
            = All(Db, Msg("mark_project_completed", "login_redirect"))
       /\ create_project_item(Db, "anon", pr, "POST",
                              [f \in { g.id : g \in FieldDefsOf(pr) } |-> "Bari"])
            = Respond(Db, Msg("create_project_item", "login_redirect"))
  /\ \A p \in PoleIds, t \in StageIdRaws :
       pole_detail(Db, "anon", p, "POST", t, TRUE, "ok")
         = Respond(Db, Msg("pole_detail", "login_redirect"))
  /\ \A e \in BagToSet(evidence) :
       delete_evidence(Db, "anon", e) = Respond(Db, Msg("delete_evidence", "login_redirect"))
  /\ \A i \in DOMAIN issues :
       resolve_issue(Db, "anon", i) = All(Db, Msg("resolve_issue", "login_redirect"))

\* the requests from an address admitted to the view in this window
Admitted(ip) ==
  Cardinality({ x \in RateProcs \X (1..ReportsEach) : x[2] <= procs[x[1]].admitted[ip] })

\* C16: the counter of an (endpoint, address) pair is incremented atomically:
\* under any interleaving of report_issue requests from one address, at most
\* ReportIssueLimit of them are admitted to the view within the window, and,
\* once no admitted request is still on its way to its increment, the counter
\* equals the number of requests admitted.
C16_AtomicCounter ==
  \A ip \in Addresses :
    /\ Admitted(ip) <= ReportIssueLimit
    /\ (\A i \in RateProcs : ~(procs[i].pc = "count" /\ procs[i].ip = ip))
         => cache[RateKey("report_issue", ip)] = Admitted(ip)

\* C21: best-effort failures never abort an evidence upload: for a valid
\* upload that passes the sequence gate, whatever the outcome of GPS
\* extraction and watermarking, the record is saved, "Uploaded Evidence" is
\* logged and completion is recomputed; if extraction was tried and failed or
\* found nothing the record has no coordinates; if watermarking failed the
\* record has the original image; if the client supplied no coordinates and
\* extraction found a pair, that pair is the record's, the watermark call's
\* and the audit entry's.
C21_BestEffortUpload ==
  \A p \in PoleIds, t \in StageIds, coords \in ClientCoords,
     exif \in ExifOutcomes, wm \in WatermarkOutcomes :
    LET plain == pole_detail(Db, "con", p, "POST", ToString(t), TRUE, "ok")
        r     == pole_detail_media(Db, "con", p, ToString(t), TRUE, coords, exif, wm)
        tried == coords[1] = "" \/ coords[2] = ""
    IN
    plain.msg.kind = "upload_ok" =>
      /\ r.msg.kind = "upload_ok"
      /\ r.media.saved
      /\ EvidenceExists(r.evidence, p, t)
      /\ r.log # <<>> /\ r.log[Len(r.log)].action = "Uploaded Evidence"
      /\ r.poles[p].is_completed
           = IsCompleted(r.evidence, p, ProjectOf(poles[p].project).project_type)
      /\ (tried /\ exif # "found") => (r.media.gps_lat = "" /\ r.media.gps_long = "")
      /\ wm # "ok" => r.media.image = "original"
      /\ (coords = <<"", "">> /\ exif = "found") =>
           /\ <<r.media.gps_lat, r.media.gps_long>> = ExifPair
           /\ r.media.wm_called /\ <<r.media.wm_lat, r.media.wm_lon>> = ExifPair
           /\ <<r.media.log_lat, r.media.log_lon>> = ExifPair

\* C22: the uniqueness pass of create_project_item, for requests run one at
\* a time: a candidate no other item of the project uses is assigned
\* unchanged; otherwise the item gets "{candidate}-{c}" for the smallest
\* c >= 1 no other item of the project uses. After the request the new
\* item's identifier differs from that of every other item of the project
\* and is not the TEMP placeholder.
C22_UniquenessPass ==
  \A pr \in ProjectIds : \A answers \in ItemForms(pr, Answers) :
    DynamicItemForm_is_valid(pr, answers) =>
      LET r         == create_project_item(Db, "con", pr, "POST", answers)
          pole      == Len(poles) + 1
          temp_id   == <<"TEMP-", ToString(Cardinality(PolesOf(poles, pr)) + 1)>>
          created   == Append(poles, [project |-> pr, identifier |-> temp_id,
                                      is_completed |-> FALSE])
          candidate == Candidate(created, fieldValues \cup NewFieldValues(pr, pole, answers),
                                 ProjectOf(pr), pole)
          others    == { poles[i].identifier : i \in PolesOf(poles, pr) }
          new       == r.poles[pole].identifier
      IN
      /\ Len(r.poles) = pole
      /\ \A i \in PoleIds : r.poles[i] = poles[i]
      /\ candidate \notin others => new = candidate
      /\ candidate \in others =>
           \E c \in 1..(Len(poles) + 1) :
             /\ new = candidate \o <<"-", ToString(c)>>
             /\ \A d \in 1..(c - 1) : (candidate \o <<"-", ToString(d)>>) \in others
      /\ new \notin others
      /\ new # temp_id /\ new[1] # "TEMP-"

\* C22 witness: the item just created was given the suffix -2, its candidate
\* and the candidate with -1 being names of other items of its project
C22_Witness ==
  /\ msg.op = "create_project_item" /\ msg.kind = "created"
  /\ LET new == poles[Len(poles)].identifier
         pr  == poles[Len(poles)].project
     IN /\ Len(new) > 2
        /\ new[Len(new) - 1] = "-" /\ new[Len(new)] = "2"
        /\ \E i, j \in PolesOf(poles, pr) :
             /\ poles[i].identifier = SubSeq(new, 1, Len(new) - 2)
             /\ poles[j].identifier = SubSeq(new, 1, Len(new) - 2) \o <<"-", "1">>

\* C23: in every reachable state each evidence record of an item refers to
\* a stage of the project type of the item's project: pole_detail persists
\* no evidence for a stage id of another project type, or for no stage, and
\* so only stages of the item's own type count toward its completion.
C23_StagesOfOwnType ==
  \A e \in BagToSet(evidence) :
    /\ e.stage \in StageIds
    /\ StageOf(e.stage).project_type = ProjectOf(poles[e.pole].project).project_type

====
